---- MODULE Spec2Model ----
(***************************************************************************)
(* Model of the four-link satellite repeater protocol                      *)
(* (scenarios/three_satellites/fourlink.py): FourlinkProtocol.check(), the *)
(* driver loop, and the World / EventQueue / Source / event classes the    *)
(* protocol drives.                                                        *)
(***************************************************************************)
EXTENDS Integers, Sequences, FiniteSets, TLC

\* ---------------------------------------------------------------- bounds
\* Largest number of trials a source needs (np.random.geometric is unbounded).
MaxAttempts == 2
\* Simulated time up to which a source may need more than one trial; a
\* source whose event would fall beyond it succeeds at its first trial.
MaxTime == 2
\* Stopping count of the driver loop (100 in the script).
StopCount == 2
\* Largest number of Pairs of one span put into the World of a test scenario.
MaxInject == 2
\* Largest coordinate of a station in the scenarios that vary the geometry.
MaxPosition == 2

\* ------------------------------------------------------------- constants
\* protocol = FourlinkProtocol(world, num_memories = 2, ...)
NumMemories == 2
\* assert len(self.stations) == 5 / assert len(self.sources) == 4
NumStations == 5
NumLinks == 4

VARIABLES
    pairs,                   \* world.world_objects["Pair"], in registration order
    qubits,                  \* world.world_objects["Qubit"], the live qubits
    queue,                   \* world.event_queue.queue, in resolution order
    current_time,            \* world.event_queue.current_time
    time_list,               \* protocol.time_list
    state_list,              \* protocol.state_list
    resource_cost_max_list,  \* protocol.resource_cost_max_list
    resource_cost_add_list,  \* protocol.resource_cost_add_list
    pc,                      \* position of the driver: "check", "resolve", "done"
    depth,                   \* self-invocations of the check() call in progress
    nextId,                  \* identity of the next Pair object
    nextSeq,                 \* insertion number of the next event
    err,                     \* the exception that ended the run, or "none"
    setup_done,              \* setup() has set protocol.link_stations
    positions                \* Station.position of the five stations

vars == <<pairs, qubits, queue, current_time, time_list, state_list,
          resource_cost_max_list, resource_cost_add_list, pc, depth,
          nextId, nextSeq, err, setup_done, positions>>

logs == <<time_list, state_list, resource_cost_max_list, resource_cost_add_list>>

\* ------------------------------------------------------------- utilities
Max(a, b) == IF a >= b THEN a ELSE b
Min(a, b) == IF a <= b THEN a ELSE b

\* ------------------------------------------------------------- topology
station_ground_left == 1
sat_left == 2
sat_central == 3
sat_right == 4
station_ground_right == 5

Links == 1..NumLinks

\* self.link_stations = [[self.stations[i], self.stations[i+1]] for i in range(4)]
link_stations(l) == <<l, l + 1>>

\* Station(world, position = ...) of the script: the stations in a row, as
\* coordinates on a line; distance() of libs.aux_functions; C.
position(s) == s - 1
distance(a, b) == IF positions[a] >= positions[b]
                  THEN positions[a] - positions[b]
                  ELSE positions[b] - positions[a]
C == 2

\* time_distribution(source): random_num trials of trial_time each.
trial_time == 1
\* The numbers of trials a source may draw at time now: one, or any number
\* whose event falls no later than MaxTime.
Attempts(now) ==
    {a \in 1..MaxAttempts : a = 1 \/ now + a * trial_time <= MaxTime}

\* ----------------------------------------------------------- entities
\* Pair.is_between_stations(station1, station2): order-independent.
is_between_stations(p, s1, s2) ==
    \/ p.s1 = s1 /\ p.s2 = s2
    \/ p.s1 = s2 /\ p.s2 = s1

\* The two Qubit objects of the Pair with identity id.
QubitsOf(id) == <<<<id, 1>>, <<id, 2>>>>

\* Pair(world, qubits, initial_state, initial_cost_add, initial_cost_max)
NewPair(id, s1, s2, state, cmax, cadd) ==
    [id |-> id, s1 |-> s1, s2 |-> s2, state |-> state,
     resource_cost_max |-> cmax, resource_cost_add |-> cadd,
     qubits |-> QubitsOf(id)]

\* state_generation(source): the state a source of link l produces;
\* a swap combines the states of its two inputs.
state_generation(l) == <<l>>
CombineState(left, right) == left \o right

PairIds(ps) == {ps[i].id : i \in 1..Len(ps)}
PairById(ps, id) == CHOOSE p \in {ps[i] : i \in 1..Len(ps)} : p.id = id

\* ------------------------------------------------------------- events
SourceEvent(time, seq, l, attempts) ==
    [type |-> "Source", time |-> time, seq |-> seq, link |-> l,
     attempts |-> attempts, pairs |-> <<>>]

EntanglementSwappingEvent(time, seq, ps) ==
    [type |-> "Swap", time |-> time, seq |-> seq, link |-> 0,
     attempts |-> 0, pairs |-> ps]

\* EventQueue.add_event: insert keeping the queue ordered by time, an event
\* going behind the events of equal time that are already queued. No event
\* of check() or of a source is earlier than current_time, so the
\* InvalidScheduleError of add_event is not raised.
RECURSIVE InsertEvent(_, _)
InsertEvent(q, e) ==
    IF q = <<>> THEN <<e>>
    ELSE IF Head(q).time <= e.time THEN <<Head(q)>> \o InsertEvent(Tail(q), e)
    ELSE <<e>> \o q

add_event(q, e) == InsertEvent(q, e)

\* SchedulingSource.schedule_event(): one SourceEvent of the source of link l,
\* attempts * trial_time after the current time.
schedule_event(q, seq, now, l, attempts) ==
    add_event(q, SourceEvent(now + attempts * trial_time, seq, l, attempts))

\* source.target_stations of the source of link l (the SchedulingSource(...)
\* calls of the script).
target_stations(l) == {link_stations(l)[1], link_stations(l)[2]}

\* ------------------------------------------------------------ protocol
_get_pairs_between_stations(ps, s1, s2) ==
    SelectSeq(ps, LAMBDA p : is_between_stations(p, s1, s2))

_get_pairs_scheduled(q, s1, s2) ==
    SelectSeq(q, LAMBDA e : /\ e.type = "Source"
                            /\ s1 \in target_stations(e.link)
                            /\ s2 \in target_stations(e.link))

pairs_links(ps, l) ==
    _get_pairs_between_stations(ps, link_stations(l)[1], link_stations(l)[2])

num_pairs_scheduled_links(q, l) ==
    Len(_get_pairs_scheduled(q, link_stations(l)[1], link_stations(l)[2]))

\* links_used[l] of check()
links_used(ps, q, l) == Len(pairs_links(ps, l)) + num_pairs_scheduled_links(q, l)

\* for _ in range(self.num_memories - link_used)
ToScheduleWhenEmpty(link_used) ==
    IF link_used = 0 THEN NumMemories ELSE 0
ToScheduleOneLess(link_used) ==
    IF link_used < NumMemories - 1 THEN NumMemories - 1 - link_used ELSE 0
ToSchedule(link_used) ==
    IF link_used < NumMemories THEN NumMemories - link_used ELSE 0

\* The schedule_event() calls of one pass of check(), in call order: the
\* link of each call, links l..NumLinks.
RECURSIVE Requests(_, _)
Requests(l, used) ==
    IF l > NumLinks THEN <<>>
    ELSE [i \in 1..ToSchedule(used[l]) |-> l] \o Requests(l + 1, used)

\* The queue after the schedule_event() calls reqs, att[i] the number of
\* trials the i-th call draws.
RECURSIVE Replenish(_, _, _, _, _)
Replenish(q, seq, now, reqs, att) ==
    IF reqs = <<>> THEN q
    ELSE Replenish(schedule_event(q, seq, now, Head(reqs), Head(att)),
                   seq + 1, now, Tail(reqs), Tail(att))

\* The scan of the queue that sets is_already_scheduled.
is_already_scheduled_head(q, left_pair, right_pair) ==
    /\ q # <<>>
    /\ Head(q).type = "Swap"
    /\ \E j \in 1..Len(Head(q).pairs) : Head(q).pairs[j] = left_pair.id
    /\ \E j \in 1..Len(Head(q).pairs) : Head(q).pairs[j] = right_pair.id
is_already_scheduled(q, left_pair, right_pair) ==
    \E i \in 1..Len(q) :
        /\ q[i].type = "Swap"
        /\ \E j \in 1..Len(q[i].pairs) : q[i].pairs[j] = left_pair.id
        /\ \E j \in 1..Len(q[i].pairs) : q[i].pairs[j] = right_pair.id

\* time=self.world.event_queue.current_time of a new swap event.
swap_time_zero(now) == 0
swap_time(now) == now

\* for left_pair, right_pair in zip(lefts, rights): ... add_event(ent_swap_event)
\* st is the queue and the next insertion number.
RECURSIVE SwapLoop(_, _, _, _)
SwapLoop(st, now, lefts, rights) ==
    IF lefts = <<>> \/ rights = <<>> THEN st
    ELSE LET left_pair == Head(lefts)
             right_pair == Head(rights)
             st2 == IF is_already_scheduled(st.queue, left_pair, right_pair)
                    THEN st
                    ELSE [queue |-> add_event(st.queue,
                                       EntanglementSwappingEvent(swap_time(now), st.seq,
                                           <<left_pair.id, right_pair.id>>)),
                          seq |-> st.seq + 1]
         IN  SwapLoop(st2, now, Tail(lefts), Tail(rights))

\* One "#Swapping ..." block of check().
SwappingFirstOnly(st, now, lefts, rights) ==
    IF Len(lefts) # 0 /\ Len(rights) # 0
    THEN SwapLoop(st, now, <<Head(lefts)>>, <<Head(rights)>>)
    ELSE st
SwappingFirstRight(st, now, lefts, rights) ==
    IF Len(lefts) # 0 /\ Len(rights) # 0
    THEN SwapLoop(st, now, lefts, [i \in 1..Len(lefts) |-> Head(rights)])
    ELSE st
SwappingWhenEmpty(st, now, lefts, rights) ==
    IF Len(lefts) = 0 /\ Len(rights) = 0
    THEN SwapLoop(st, now, lefts, rights)
    ELSE st
Swapping(st, now, lefts, rights) ==
    IF Len(lefts) # 0 /\ Len(rights) # 0
    THEN SwapLoop(st, now, lefts, rights)
    ELSE st

\* The three swapping blocks of check(): left, right, central.
ScheduleSwapsAdjacent(st, now, ps) ==
    LET left == Swapping(st, now, pairs_links(ps, 1), pairs_links(ps, 2))
        right == Swapping(left, now, pairs_links(ps, 3), pairs_links(ps, 4))
    IN  Swapping(right, now, pairs_links(ps, 2), pairs_links(ps, 3))
ScheduleSwaps(st, now, ps) ==
    LET left == Swapping(st, now, pairs_links(ps, 1), pairs_links(ps, 2))
        right == Swapping(left, now, pairs_links(ps, 3), pairs_links(ps, 4))
    IN  Swapping(right, now,
            _get_pairs_between_stations(ps, station_ground_left, sat_central),
            _get_pairs_between_stations(ps, sat_central, station_ground_right))

long_range_pairs(ps) ==
    _get_pairs_between_stations(ps, station_ground_left, station_ground_right)

\* _eval_pair: comm_time
comm_time_left_only ==
    distance(sat_central, station_ground_left) \div C
comm_time ==
    Max(distance(sat_central, station_ground_left),
        distance(sat_central, station_ground_right)) \div C

\* _eval_pair: self.<log> += [value], for the values of the long-range
\* pairs evaluated in one invocation of check(), in their order.
_eval_pair_overwrite(log, values) == IF values = <<>> THEN log ELSE values
_eval_pair(log, values) == log \o values

\* ------------------------------------------------------------- World
\* Pair.destroy() / Qubit.destroy() of the pairs gone: deregister them.
DestroyPairs(ps, gone) == SelectSeq(ps, LAMBDA p : p.id \notin PairIds(gone))
QubitSet(ps) == UNION {{ps[i].qubits[1], ps[i].qubits[2]} : i \in 1..Len(ps)}

\* SourceEvent.resolve(): the source generates a Pair between its two target
\* stations; its cost counters start at the number of trials.
GeneratePair(id, e) ==
    NewPair(id, link_stations(e.link)[1], link_stations(e.link)[2],
            state_generation(e.link), e.attempts, e.attempts)

\* EntanglementSwappingEvent.resolve(): the output Pair spans the two outer
\* stations; resource_cost_max combines by max, resource_cost_add by sum.
SwapPair(id, left_pair, right_pair) ==
    NewPair(id, left_pair.s1, right_pair.s2,
            CombineState(left_pair.state, right_pair.state),
            Max(left_pair.resource_cost_max, right_pair.resource_cost_max),
            left_pair.resource_cost_add + right_pair.resource_cost_add)

\* The "# cleanup" of check(): the Pairs left in the World once the
\* long-range pairs lrp are destroyed, and the qubits left.
cleanup_first_only(ps, lrp) ==
    IF lrp = <<>> THEN ps ELSE DestroyPairs(ps, <<Head(lrp)>>)
cleanup_all(ps, lrp) == IF lrp = <<>> THEN ps ELSE <<>>
cleanup_none(ps, lrp) == ps
cleanup(ps, lrp) == DestroyPairs(ps, lrp)
cleanup_qubits_first_only(qs, lrp) ==
    qs \ {lrp[i].qubits[1] : i \in 1..Len(lrp)}
cleanup_qubits(qs, lrp) == qs \ QubitSet(lrp)

\* while len(protocol.time_list) < 100
loop_condition_inclusive(tl) == Len(tl) <= StopCount
loop_condition(tl) == Len(tl) < StopCount

\* ------------------------------------------------------------- states
\* World(); the stations and sources; FourlinkProtocol(...); setup().
Init ==
    /\ pairs = <<>>
    /\ qubits = {}
    /\ queue = <<>>
    /\ current_time = 0
    /\ time_list = <<>>
    /\ state_list = <<>>
    /\ resource_cost_max_list = <<>>
    /\ resource_cost_add_list = <<>>
    /\ pc = "check"
    /\ depth = 0
    /\ nextId = 1
    /\ nextSeq = 1
    /\ err = "none"
    /\ setup_done = TRUE
    /\ positions = [s \in 1..NumStations |-> position(s)]

\* self.link_stations of the first statement of check(): an attribute that
\* only setup() sets, in its last statement.
has_link_stations_always(done) == TRUE
has_link_stations(done) == done

\* One invocation of check(), the d-th nested one: replenishment, the three
\* swapping blocks, the evaluation of the long-range pairs, and then either
\* the return or the self-invocation (the last statement of check()), which
\* runs as the next step.
CheckBody(d) ==
    /\ err = "none"
    /\ IF ~has_link_stations(setup_done)
       THEN /\ err' = "AttributeError"
            /\ pc' = "done"
            /\ UNCHANGED <<pairs, qubits, queue, logs, depth, nextSeq>>
       ELSE
       LET used == [l \in Links |-> links_used(pairs, queue, l)]
           reqs == Requests(1, used)
           lrp == long_range_pairs(pairs)
       IN  \E att \in [1..Len(reqs) -> Attempts(current_time)] :
             LET filled == [queue |-> Replenish(queue, nextSeq, current_time,
                                                reqs, att),
                            seq |-> nextSeq + Len(reqs)]
                 st == ScheduleSwaps(filled, current_time, pairs)
             IN  /\ queue' = st.queue
                 /\ nextSeq' = st.seq
                 /\ time_list' = _eval_pair(time_list,
                        [i \in 1..Len(lrp) |-> current_time + comm_time])
                 /\ state_list' = _eval_pair(state_list,
                        [i \in 1..Len(lrp) |-> lrp[i].state])
                 /\ resource_cost_max_list' = _eval_pair(resource_cost_max_list,
                        [i \in 1..Len(lrp) |-> lrp[i].resource_cost_max])
                 /\ resource_cost_add_list' = _eval_pair(resource_cost_add_list,
                        [i \in 1..Len(lrp) |-> lrp[i].resource_cost_add])
                 /\ IF QubitSet(lrp) \subseteq qubits
                    THEN /\ qubits' = cleanup_qubits(qubits, lrp)
                         /\ pairs' = cleanup(pairs, lrp)
                         /\ err' = "none"
                         /\ IF lrp # <<>>
                            THEN /\ pc' = "check"
                                 /\ depth' = d + 1
                            ELSE /\ pc' = "resolve"
                                 /\ depth' = d
                    ELSE /\ err' = "DoubleDestroyError"
                         /\ pc' = "done"
                         /\ UNCHANGED <<qubits, pairs, depth>>
    /\ UNCHANGED <<current_time, nextId, setup_done, positions>>

\* protocol.check() of the driver loop, and the invocations it makes of itself.
check ==
    /\ pc = "check"
    /\ CheckBody(depth)

\* A second protocol.check() with no resolve_next_event() in between.
check_again ==
    /\ pc = "resolve"
    /\ CheckBody(0)

\* world.event_queue.resolve_next_event(), and the test of the while loop
\* that follows it.
resolve_next_event ==
    /\ pc = "resolve"
    /\ err = "none"
    /\ IF queue = <<>>
       THEN /\ err' = "EmptyQueueError"
            /\ pc' = "done"
            /\ UNCHANGED <<pairs, qubits, queue, current_time, nextId>>
       ELSE LET e == Head(queue) IN
            /\ queue' = Tail(queue)
            /\ current_time' = e.time
            /\ IF e.type = "Source"
               THEN /\ pairs' = Append(pairs, GeneratePair(nextId, e))
                    /\ qubits' = qubits \cup QubitSet(<<GeneratePair(nextId, e)>>)
                    /\ nextId' = nextId + 1
                    /\ err' = "none"
                    /\ pc' = IF loop_condition(time_list) THEN "check" ELSE "done"
               ELSE IF /\ e.pairs[1] \in PairIds(pairs)
                       /\ e.pairs[2] \in PairIds(pairs)
                       /\ e.pairs[1] # e.pairs[2]
               THEN LET left_pair == PairById(pairs, e.pairs[1])
                        right_pair == PairById(pairs, e.pairs[2])
                        new_pair == SwapPair(nextId, left_pair, right_pair)
                    IN  /\ pairs' = Append(DestroyPairs(pairs,
                                        <<left_pair, right_pair>>), new_pair)
                        /\ qubits' = (qubits \ QubitSet(<<left_pair, right_pair>>))
                                        \cup QubitSet(<<new_pair>>)
                        /\ nextId' = nextId + 1
                        /\ err' = "none"
                        /\ pc' = IF loop_condition(time_list)
                                 THEN "check" ELSE "done"
               ELSE /\ err' = "DoubleDestroyError"
                    /\ pc' = "done"
                    /\ UNCHANGED <<pairs, qubits, nextId>>
    /\ depth' = 0
    /\ UNCHANGED <<logs, nextSeq, setup_done, positions>>

\* while len(protocol.time_list) < 100: check(); resolve_next_event()
Next == check \/ resolve_next_event

Spec == Init /\ [][Next]_vars

\* The driver loop with check() called again at will.
NextTwice == check \/ resolve_next_event \/ check_again

SpecTwice == Init /\ [][NextTwice]_vars

\* Weak fairness of check, with ENABLED <<check>>_vars written out: check()
\* can run exactly when the driver is at it, and a step taken from there is
\* a step of check().
FairCheck == []<>(pc # "check") \/ []<><<pc = "check">>_vars

\* The driver loop as a running program: while the loop has not exited, its
\* next statement is executed.
SpecFair ==
    Init /\ [][Next]_vars /\ FairCheck /\ WF_vars(resolve_next_event)

\* A World into which a test has put n1 Pairs of link 1, n2 Pairs of link 2
\* and nlr Pairs between the two ground stations, before the first check().
InjectedPairs(n1, n2, nlr) ==
    [i \in 1..n1 |->
        NewPair(i, link_stations(1)[1], link_stations(1)[2],
                state_generation(1), 1, 1)]
    \o [i \in 1..n2 |->
        NewPair(n1 + i, link_stations(2)[1], link_stations(2)[2],
                state_generation(2), 1, 1)]
    \o [i \in 1..nlr |->
        NewPair(n1 + n2 + i, station_ground_left, station_ground_right,
                <<1, 2, 3, 4>>, i, NumLinks * i)]

InitWorld ==
    \E n1 \in 0..MaxInject, n2 \in 0..MaxInject, nlr \in 0..MaxInject :
        /\ pairs = InjectedPairs(n1, n2, nlr)
        /\ qubits = QubitSet(InjectedPairs(n1, n2, nlr))
        /\ queue = <<>>
        /\ current_time = 0
        /\ time_list = <<>>
        /\ state_list = <<>>
        /\ resource_cost_max_list = <<>>
        /\ resource_cost_add_list = <<>>
        /\ pc = "check"
        /\ depth = 0
        /\ nextId = n1 + n2 + nlr + 1
        /\ nextSeq = 1
        /\ err = "none"
        /\ setup_done = TRUE
        /\ positions = [s \in 1..NumStations |-> position(s)]

\* check() on such a World, and check() once more.
NextWorld == check \/ check_again

SpecWorld == InitWorld /\ [][NextWorld]_vars

\* setup() of a protocol built with n_stations stations and n_sources
\* sources, all of them with a schedule_event method or not: the asserts,
\* then self.link_stations. A caller that goes on after a failed assert has a
\* protocol without link_stations.
setup ==
    /\ pc = "setup"
    /\ \E n_stations \in {NumStations - 1, NumStations},
          n_sources \in {NumLinks - 1, NumLinks},
          callable \in BOOLEAN :
            setup_done' = (/\ n_stations = NumStations
                           /\ n_sources = NumLinks
                           /\ callable)
    /\ pc' = "check"
    /\ UNCHANGED <<pairs, qubits, queue, current_time, logs, depth,
                   nextId, nextSeq, err, positions>>

\* The caller does not call setup().
no_setup ==
    /\ pc = "setup"
    /\ pc' = "check"
    /\ UNCHANGED <<pairs, qubits, queue, current_time, logs, depth,
                   nextId, nextSeq, err, setup_done, positions>>

\* A World with Pairs in it and a protocol just constructed.
InitSetup ==
    \E n1 \in 0..MaxInject, n2 \in 0..MaxInject, nlr \in 0..MaxInject :
        /\ pairs = InjectedPairs(n1, n2, nlr)
        /\ qubits = QubitSet(InjectedPairs(n1, n2, nlr))
        /\ queue = <<>>
        /\ current_time = 0
        /\ time_list = <<>>
        /\ state_list = <<>>
        /\ resource_cost_max_list = <<>>
        /\ resource_cost_add_list = <<>>
        /\ pc = "setup"
        /\ depth = 0
        /\ nextId = n1 + n2 + nlr + 1
        /\ nextSeq = 1
        /\ err = "none"
        /\ setup_done = FALSE
        /\ positions = [s \in 1..NumStations |-> position(s)]

NextSetup == setup \/ no_setup \/ check

SpecSetup == InitSetup /\ [][NextSetup]_vars

\* A World with stations at any coordinates, at any time, whose links are
\* all busy (every memory has a SourceEvent pending, one trial away) and
\* into which a test has put nlr Pairs between the two ground stations.
InitGeometry ==
    \E coordinates \in [1..NumStations -> 0..MaxPosition],
       nlr \in 1..MaxInject, now \in 0..MaxTime :
        /\ positions = coordinates
        /\ pairs = InjectedPairs(0, 0, nlr)
        /\ qubits = QubitSet(InjectedPairs(0, 0, nlr))
        /\ queue = Replenish(<<>>, 1, now, Requests(1, [l \in Links |-> 0]),
                             [i \in 1..(NumLinks * NumMemories) |-> 1])
        /\ current_time = now
        /\ time_list = <<>>
        /\ state_list = <<>>
        /\ resource_cost_max_list = <<>>
        /\ resource_cost_add_list = <<>>
        /\ pc = "check"
        /\ depth = 0
        /\ nextId = nlr + 1
        /\ nextSeq = NumLinks * NumMemories + 1
        /\ err = "none"
        /\ setup_done = TRUE

NextGeometry == check

SpecGeometry == InitGeometry /\ [][NextGeometry]_vars

\* ---------------------------------------------------------- properties
\* What the claims speak of, read off the World and the queue.
LivePairs(ps, a, b) == SelectSeq(ps, LAMBDA p : {p.s1, p.s2} = {a, b})
PendingSourceEvents(q, l) ==
    SelectSeq(q, LAMBDA e : e.type = "Source" /\ e.link = l)
SwapEvents(q) == SelectSeq(q, LAMBDA e : e.type = "Swap")
LinkLoad(ps, q, l) ==
    Len(LivePairs(ps, l, l + 1)) + Len(PendingSourceEvents(q, l))
References(e, left_pair, right_pair) ==
    /\ e.type = "Swap"
    /\ {e.pairs[j] : j \in 1..Len(e.pairs)} = {left_pair.id, right_pair.id}
NoDoubleSwap(q) ==
    \A i, j \in 1..Len(q) :
        (/\ i # j
         /\ q[i].type = "Swap"
         /\ q[j].type = "Swap")
        => {q[i].pairs[k] : k \in 1..Len(q[i].pairs)}
            # {q[j].pairs[k] : k \in 1..Len(q[j].pairs)}

\* A step of a second check(): it starts where check() has returned and,
\* unlike resolve_next_event, removes no event and raises no error.
CheckAgainStep ==
    /\ pc = "resolve"
    /\ err' = "none"
    /\ Len(queue') >= Len(queue)

\* A step of an invocation of check(), nested or not, by the driver or not.
CheckStep == pc = "check" \/ CheckAgainStep

\* C1. Capacity: every invocation of check() leaves each link with at most
\* num_memories live Pairs plus pending SourceEvents, never fewer than it
\* found, and with exactly num_memories where it found fewer.
C1_Capacity ==
    [][CheckStep =>
        \A l \in Links :
            /\ LinkLoad(pairs', queue', l) <= NumMemories
            /\ LinkLoad(pairs', queue', l) >= LinkLoad(pairs, queue, l)
            /\ (LinkLoad(pairs, queue, l) < NumMemories
                    => LinkLoad(pairs', queue', l) = NumMemories)]_vars

\* A check() has refilled a link after a swap consumed its Pair: a
\* SourceEvent scheduled after the initial fill is pending, all links full.
C1_Witness ==
    /\ pc = "resolve"
    /\ current_time > 0
    /\ \E i \in 1..Len(queue) :
        /\ queue[i].type = "Source"
        /\ queue[i].seq > NumLinks * NumMemories
    /\ \A l \in Links : LinkLoad(pairs, queue, l) = NumMemories

\* C2. Idempotence: a second check() with no resolve_next_event() in between
\* leaves the pending swap events as the first left them, and no two pending
\* swap events reference the same two pairs.
C2_Idempotent ==
    [][CheckAgainStep =>
        /\ SwapEvents(queue') = SwapEvents(queue)
        /\ NoDoubleSwap(queue')]_vars

\* check() has returned with two swap events pending behind another event:
\* the state a second check() starts from, and ends in.
C2_Witness ==
    /\ pc = "resolve"
    /\ Len(SwapEvents(queue)) >= 2
    /\ Head(queue).type = "Source"

\* C3. Recursion: check() invokes itself at most once per call, and the
\* nested invocation finds no long-range pair to evaluate (none that the
\* outer one destroyed, and none at all), so it returns.
C3_RecursionBounded ==
    /\ depth <= 1
    /\ (pc = "check" /\ depth = 1) =>
            LivePairs(pairs, station_ground_left, station_ground_right) = <<>>

\* The nested invocation is about to run after the outer one evaluated and
\* destroyed two long-range pairs.
C3_Witness ==
    /\ pc = "check"
    /\ depth = 1
    /\ Len(time_list) = 2

\* The i-th Pair of lefts and the i-th Pair of rights are booked into a
\* pending swap event of q, for every i both lists reach.
PositionMatched(q, lefts, rights) ==
    \A i \in 1..Min(Len(lefts), Len(rights)) :
        \E k \in 1..Len(q) : References(q[k], lefts[i], rights[i])

\* C4 as claimed: at each of the three relays, Pairs of the two links
\* adjacent to the relay are booked into swaps by position when check()
\* returns.
C4_AdjacentLinksAtEveryRelay ==
    [][CheckStep =>
        \A r \in {sat_left, sat_central, sat_right} :
            PositionMatched(queue', LivePairs(pairs, r - 1, r),
                                    LivePairs(pairs, r, r + 1))]_vars

\* C4, amended. After an invocation of check(), position-matched Pairs are
\* booked into pending swaps at sat_left (link 1 with link 2) and at
\* sat_right (link 3 with link 4); at sat_central the Pairs matched are
\* those between ground-left and sat_central and between sat_central and
\* ground-right, the outputs of the two outer swaps.
C4_SwapAttempts ==
    [][CheckStep =>
        /\ PositionMatched(queue', LivePairs(pairs, station_ground_left, sat_left),
                                   LivePairs(pairs, sat_left, sat_central))
        /\ PositionMatched(queue', LivePairs(pairs, sat_central, sat_right),
                                   LivePairs(pairs, sat_right, station_ground_right))
        /\ PositionMatched(queue',
                LivePairs(pairs, station_ground_left, sat_central),
                LivePairs(pairs, sat_central, station_ground_right))]_vars

\* check() has returned with a swap pending at each kind of relay: one of
\* two adjacent links, and one at sat_central of two swapped Pairs.
C4_Witness ==
    /\ pc = "resolve"
    /\ \E k \in 1..Len(queue) :
        /\ queue[k].type = "Swap"
        /\ PairById(pairs, queue[k].pairs[1]).s1 = station_ground_left
        /\ PairById(pairs, queue[k].pairs[1]).s2 = sat_central
    /\ \E k \in 1..Len(queue) :
        /\ queue[k].type = "Swap"
        /\ PairById(pairs, queue[k].pairs[1]).s2 = sat_left

C6_DriverResult ==
    (pc = "done" /\ err = "none") =>
        /\ Len(time_list) = StopCount
        /\ Len(state_list) = StopCount
        /\ Len(resource_cost_max_list) = StopCount
        /\ Len(resource_cost_add_list) = StopCount
        /\ \A i, j \in 1..Len(time_list) : i <= j => time_list[i] <= time_list[j]

\* The loop has exited, its last two entries recorded at different times.
C6_Witness ==
    /\ pc = "done"
    /\ err = "none"
    /\ Len(time_list) = StopCount
    /\ time_list[StopCount - 1] < time_list[StopCount]

RemoveAt(q, i) == SubSeq(q, 1, i - 1) \o SubSeq(q, i + 1, Len(q))

\* C7. Time and event order: no step decreases current_time, and
\* resolve_next_event removes the pending event of least scheduled time,
\* among those of that time the one inserted first, and sets current_time
\* to its time.
C7_TimeOrder ==
    [][/\ current_time' >= current_time
       /\ (resolve_next_event /\ queue # <<>>) =>
            \E i \in 1..Len(queue) :
                /\ queue' = RemoveAt(queue, i)
                /\ current_time' = queue[i].time
                /\ \A j \in 1..Len(queue) :
                    \/ queue[i].time < queue[j].time
                    \/ /\ queue[i].time = queue[j].time
                       /\ queue[i].seq <= queue[j].seq]_vars

\* A swap event that check() added at the current time waits behind a
\* SourceEvent of the same time that was inserted earlier.
C7_Witness ==
    /\ pc = "resolve"
    /\ current_time >= 1
    /\ queue # <<>>
    /\ Head(queue).type = "Source"
    /\ Head(queue).time = current_time
    /\ \E k \in 2..Len(queue) :
        /\ queue[k].type = "Swap"
        /\ queue[k].time = Head(queue).time
        /\ queue[k].seq > Head(queue).seq

\* C8. Initial fill: the first check() on the World without Pairs and with
\* an empty queue leaves num_memories SourceEvents of each link pending
\* (NumLinks * num_memories in all), no swap event, and the four logs empty.
C8_InitialFill ==
    [][(/\ CheckStep
        /\ pairs = <<>>
        /\ queue = <<>>
        /\ time_list = <<>>) =>
            /\ \A l \in Links : Len(PendingSourceEvents(queue', l)) = NumMemories
            /\ Len(queue') = NumLinks * NumMemories
            /\ SwapEvents(queue') = <<>>
            /\ time_list' = <<>>
            /\ state_list' = <<>>
            /\ resource_cost_max_list' = <<>>
            /\ resource_cost_add_list' = <<>>
            /\ pc' = "resolve"]_vars

\* setup() and one check() have run.
C8_Witness ==
    /\ pc = "resolve"
    /\ current_time = 0
    /\ nextId = 1
    /\ Len(queue) = NumLinks * NumMemories
    /\ \A l \in Links : Len(PendingSourceEvents(queue, l)) = NumMemories

\* The pending swap events that reference one of the Pairs ps.
SwapsOf(q, ps) ==
    SelectSeq(q, LAMBDA e :
        /\ e.type = "Swap"
        /\ \E j \in 1..Len(e.pairs) : e.pairs[j] \in PairIds(ps))

\* C9. Swap scheduling at sat_left: with n1 >= 1 Pairs on link 1, n2 >= 1 on
\* link 2 and no swap pending for any of them, one invocation of check()
\* leaves exactly min(n1, n2) swap events for them, the i-th referencing the
\* i-th Pair of link 1 and the i-th Pair of link 2, at the current time.
C9_SwapScheduling ==
    [][LET l1 == LivePairs(pairs, station_ground_left, sat_left)
           l2 == LivePairs(pairs, sat_left, sat_central)
           new == SwapsOf(queue', l1 \o l2)
       IN  (/\ CheckStep
            /\ Len(l1) >= 1
            /\ Len(l2) >= 1
            /\ SwapsOf(queue, l1 \o l2) = <<>>) =>
                /\ Len(new) = Min(Len(l1), Len(l2))
                /\ \A i \in 1..Len(new) :
                    /\ new[i].pairs = <<l1[i].id, l2[i].id>>
                    /\ new[i].time = current_time]_vars

\* check() has scheduled two swaps at once for two Pairs on each link.
C9_Witness ==
    /\ pc = "resolve"
    /\ nextSeq = NumLinks * NumMemories - 4 + 2 + 1
    /\ Len(LivePairs(pairs, station_ground_left, sat_left)) = 2
    /\ Len(LivePairs(pairs, sat_left, sat_central)) = 2
    /\ Len(SwapEvents(queue)) = 2

\* C10 as claimed: the live Pairs never outnumber the memories the links
\* have, NumLinks * num_memories.
C10_PairsBounded == Len(pairs) <= NumLinks * NumMemories

\* The Pair that owns a Qubit: a Qubit object carries its Pair's identity.
OwnerOf(qubit) == qubit[1]

\* C11. Ownership: every Pair registered in the World has exactly two
\* qubits, distinct, live and owned by that Pair, and every live qubit
\* belongs to a Pair that is still registered (no qubit is left behind by a
\* resolved swap or by the evaluation of a long-range pair).
C11_Ownership ==
    /\ \A i \in 1..Len(pairs) :
        /\ Len(pairs[i].qubits) = 2
        /\ pairs[i].qubits[1] # pairs[i].qubits[2]
        /\ \A k \in 1..2 :
            /\ pairs[i].qubits[k] \in qubits
            /\ OwnerOf(pairs[i].qubits[k]) = pairs[i].id
    /\ \A qubit \in qubits : OwnerOf(qubit) \in PairIds(pairs)
    /\ Cardinality(qubits) = 2 * Len(pairs)

\* A long-range pair has been evaluated and destroyed (after three swaps
\* resolved) while other Pairs are still live.
C11_Witness ==
    /\ pc = "resolve"
    /\ Len(time_list) >= 1
    /\ pairs # <<>>
    /\ qubits # {}

\* What a failed call must leave alone: the World registry, the event queue
\* and the four logs.
FailedCallFrame ==
    /\ pairs' = pairs
    /\ qubits' = qubits
    /\ queue' = queue
    /\ current_time' = current_time
    /\ logs' = logs

IsPrefix(a, b) == Len(a) <= Len(b) /\ SubSeq(b, 1, Len(a)) = a

\* C13. Measurement logs: in every state the four logs have the same
\* length and time_list is non-decreasing, and every step leaves each log
\* as it was or with entries added at its end.
C13_LogsAppendOnly ==
    /\ [](/\ Len(state_list) = Len(time_list)
          /\ Len(resource_cost_max_list) = Len(time_list)
          /\ Len(resource_cost_add_list) = Len(time_list)
          /\ \A i, j \in 1..Len(time_list) :
                i <= j => time_list[i] <= time_list[j])
    /\ [][/\ IsPrefix(time_list, time_list')
          /\ IsPrefix(state_list, state_list')
          /\ IsPrefix(resource_cost_max_list, resource_cost_max_list')
          /\ IsPrefix(resource_cost_add_list, resource_cost_add_list')]_vars

\* The second long-range pair has just been evaluated, later than the first.
C13_Witness ==
    /\ pc = "check"
    /\ depth = 1
    /\ Len(time_list) >= 2
    /\ time_list[1] < time_list[2]
    /\ Len(resource_cost_add_list) = Len(time_list)

\* C14. Frame of check(): an invocation of check(), the driver's or a nested
\* one, leaves current_time unchanged, creates no Pair, keeps every pending
\* event in the queue in its order (it only adds events), destroys exactly
\* the Pairs between the two ground stations and their qubits, and only
\* appends to the logs.
C14_CheckFrame ==
    [][pc = "check" =>
        /\ current_time' = current_time
        /\ nextId' = nextId
        /\ SelectSeq(queue', LAMBDA e : \E i \in 1..Len(queue) : queue[i] = e)
                = queue
        /\ pairs' = SelectSeq(pairs, LAMBDA p :
                        {p.s1, p.s2} # {station_ground_left, station_ground_right})
        /\ qubits' = qubits \ QubitSet(LivePairs(pairs, station_ground_left,
                                                 station_ground_right))
        /\ IsPrefix(time_list, time_list')
        /\ IsPrefix(state_list, state_list')
        /\ IsPrefix(resource_cost_max_list, resource_cost_max_list')
        /\ IsPrefix(resource_cost_add_list, resource_cost_add_list')]_vars

\* check() has returned from its nested invocation: a long-range pair is
\* evaluated and gone, other Pairs are still registered, and SourceEvents
\* added after the initial fill are pending.
C14_Witness ==
    /\ pc = "resolve"
    /\ depth = 1
    /\ Len(time_list) >= 1
    /\ pairs # <<>>
    /\ \E i \in 1..Len(queue) :
        /\ queue[i].type = "Source"
        /\ queue[i].seq > NumLinks * NumMemories

\* The Pairs a pending swap event references.
SwapInputs(e) == {e.pairs[j] : j \in 1..Len(e.pairs)}

\* C15. No double destroy: the run never ends in DoubleDestroyError; every
\* pending swap event references two different Pairs that are both still
\* registered, with their qubits live, so its inputs are live when it
\* resolves; and no pending swap event references a Pair between the two
\* ground stations, the Pairs that the long-range evaluation destroys.
C15_NoDoubleDestroy ==
    /\ err # "DoubleDestroyError"
    /\ \A i \in 1..Len(queue) :
        queue[i].type = "Swap" =>
            /\ Cardinality(SwapInputs(queue[i])) = 2
            /\ SwapInputs(queue[i]) \subseteq PairIds(pairs)
            /\ \A id \in SwapInputs(queue[i]) :
                /\ QubitSet(<<PairById(pairs, id)>>) \subseteq qubits
                /\ ~is_between_stations(PairById(pairs, id),
                        station_ground_left, station_ground_right)

\* A swap is pending right after a long-range pair was evaluated and
\* destroyed, and after other swaps have resolved.
C15_Witness ==
    /\ pc = "check"
    /\ depth = 1
    /\ Len(time_list) >= 1
    /\ SwapEvents(queue) # <<>>

\* The pending swap events that reference the Pair with identity id.
SwapsReferencing(q, id) ==
    {k \in 1..Len(q) : q[k].type = "Swap" /\ id \in SwapInputs(q[k])}

\* C17. Position-based pairing: in every state of the driver loop each
\* registered Pair is referenced by at most one pending swap event.
C17_OneSwapPerPair ==
    \A i \in 1..Len(pairs) :
        Cardinality(SwapsReferencing(queue, pairs[i].id)) <= 1

\* check() has returned with a swap pending for a Pair of some span while a
\* Pair of the same span, created after both inputs of that swap, waits
\* unbooked.
C17_Witness ==
    /\ pc = "resolve"
    /\ \E i, j \in 1..Len(pairs) :
        /\ pairs[i].s1 = pairs[j].s1
        /\ pairs[i].s2 = pairs[j].s2
        /\ SwapsReferencing(queue, pairs[j].id) = {}
        /\ \E k \in SwapsReferencing(queue, pairs[i].id) :
            \A id \in SwapInputs(queue[k]) : id < pairs[j].id

\* C18. The driver never resolves on an empty queue: whenever check() has
\* returned to the driver loop an event is pending, and the run never ends
\* in EmptyQueueError.
C18_QueueNeverEmpty ==
    /\ err # "EmptyQueueError"
    /\ (pc = "resolve" /\ err = "none") => queue # <<>>

\* check() has returned with every memory of every link holding a Pair and
\* no SourceEvent pending: the pending events are swaps only.
C18_Witness ==
    /\ pc = "resolve"
    /\ \A l \in Links : Len(LivePairs(pairs, l, l + 1)) = NumMemories
    /\ queue # <<>>
    /\ \A i \in 1..Len(queue) : queue[i].type = "Swap"

\* C19. One long-range pair at a time: in every state of the driver loop
\* at most one Pair spans the two ground stations; no step adds more than
\* one entry to the logs; and check() invokes itself at most once per call
\* of the driver, the nested invocation finding no long-range pair.
C19_OneLongRangePair ==
    /\ [](/\ Len(LivePairs(pairs, station_ground_left,
                            station_ground_right)) <= 1
          /\ depth <= 1
          /\ (pc = "check" /\ depth = 1) =>
                LivePairs(pairs, station_ground_left,
                          station_ground_right) = <<>>)
    /\ [][/\ Len(time_list') <= Len(time_list) + 1
          /\ (pc = "check" /\ depth = 1) => time_list' = time_list]_vars

\* The driver's check() is about to run on a World that holds one
\* long-range pair, the output of the swap at sat_central just resolved.
C19_Witness ==
    /\ pc = "check"
    /\ depth = 0
    /\ Len(LivePairs(pairs, station_ground_left, station_ground_right)) = 1
    /\ Len(pairs) > 1

SetMax(S) == CHOOSE x \in S : \A y \in S : y <= x

\* The entries an invocation of check() adds to time_list.
NewTimes == [i \in 1..(Len(time_list') - Len(time_list)) |->
                time_list'[Len(time_list) + i]]

\* C16 as claimed: the time recorded for a long-range pair is current_time
\* plus the delay from the internal relay most distant from a ground
\* station, over all three relays and both ground stations.
C16_MostDistantRelay ==
    [][pc = "check" =>
        \A i \in 1..Len(NewTimes) :
            NewTimes[i] = current_time +
                SetMax({distance(r, e) :
                          r \in {sat_left, sat_central, sat_right},
                          e \in {station_ground_left, station_ground_right}})
                    \div C]_vars

\* C16, amended. For each evaluated long-range pair the value appended to
\* time_list is current_time plus the one-way delay from sat_central to the
\* ground station farther from it: current_time +
\* max(distance(sat_central, ground_left),
\*     distance(sat_central, ground_right)) / C; the other two relays do not
\* enter. One value per long-range pair, for any station positions.
C16_RecordedTime ==
    [][pc = "check" =>
        /\ Len(NewTimes) = Len(LivePairs(pairs, station_ground_left,
                                         station_ground_right))
        /\ \A i \in 1..Len(NewTimes) :
            NewTimes[i] = current_time +
                SetMax({distance(sat_central, e) :
                          e \in {station_ground_left, station_ground_right}})
                    \div C]_vars

\* A long-range pair was evaluated at a time after 0 in a geometry where
\* ground-right is the farther ground station from sat_central and sat_right
\* is farther still from ground-left, far enough for a longer delay than the
\* one recorded.
C16_Witness ==
    /\ time_list # <<>>
    /\ current_time > 0
    /\ distance(sat_central, station_ground_right)
            > distance(sat_central, station_ground_left)
    /\ distance(sat_right, station_ground_left)
            > distance(sat_central, station_ground_right)
    /\ time_list[1] < current_time
            + distance(sat_right, station_ground_left) \div C

\* C20 as claimed, in what it says of the end of a run: every Pair created
\* is consumed by a swap or by the long-range evaluation, so none is
\* registered once the loop has exited.
C20_AllPairsConsumed ==
    (pc = "done" /\ err = "none") => pairs = <<>>

\* C20, amended. Under fair execution of the driver loop, with every
\* SourceEvent at a finite time: as long as the logs hold fewer entries
\* than the stopping count a long-range pair is eventually evaluated (the
\* length of time_list eventually increases), and the loop eventually
\* exits, without an error, with the stopping count of entries. Pairs and
\* events left when the loop exits are not consumed.
C20_Progress ==
    /\ \A n \in 0..(StopCount - 1) :
        (Len(time_list) = n) ~> (Len(time_list) = n + 1)
    /\ <>(pc = "done" /\ err = "none" /\ Len(time_list) = StopCount)

\* The loop has exited with the stopping count of entries while Pairs are
\* still registered and events still pending.
C20_Witness ==
    /\ pc = "done"
    /\ err = "none"
    /\ Len(time_list) = StopCount
    /\ pairs # <<>>
    /\ queue # <<>>

====
